---- MODULE Spec2Model ----
(***************************************************************************)
(* Model of src/app/main.py: a FastAPI application exposing CRUD routes    *)
(* for the "users" table through SQLAlchemy's AsyncSession, behind         *)
(* TrustedHostMiddleware and LoggingMiddleware.                            *)
(*                                                                         *)
(* Several requests are in flight at once (one slot per request).  A       *)
(* request is received (host check, request log, body validation), then    *)
(* its handler runs one awaited storage step at a time, and the last step  *)
(* of the handler also produces the response as it travels back through    *)
(* the middleware stack.  The storage engine is PostgreSQL at its default  *)
(* isolation level and is assumed to stay available.                       *)
(***************************************************************************)
EXTENDS Integers, Sequences, FiniteSets, TLC

\* Bounds of the model.
MaxId == 2        \* the users_id_seq sequence hands out ids 1..MaxId

Slots == {"r1", "r2"}   \* requests that may be in flight at the same time

VARIABLES users, seq, pc, req, newUser, status, body, raised, trace, log

vars == <<users, seq, pc, req, newUser, status, body, raised, trace, log>>

----------------------------------------------------------------------------
\* Inputs

Missing == "<missing>"      \* a JSON body without the field

Names == {"", "Ann"}

\* "a@X.c" is valid and normalizes to "a@x.c"; "ax.c" has no "@".
EmailUpper == <<"a", "@", "X", ".", "c">>
EmailOther == <<"b", "@", "x", ".", "c">>
EmailBad   == <<"a", "x", ".", "c">>

EmailInputs == {EmailUpper, EmailOther, EmailBad}

GoodHost == "localhost"
BadHost == "evil.example"

Ids == 1..MaxId

NoEmail == <<>>

\* The requests of the model.  The host check does not look at the rest of
\* the request, so a single request carries the refused host.
Requests ==
    [op : {"create_user"}, id : {0}, name : Names \cup {Missing},
     email : EmailInputs, host : {GoodHost}]
    \cup [op : {"update_user"}, id : Ids, name : Names,
          email : EmailInputs, host : {GoodHost}]
    \cup [op : {"get_user", "delete_user"}, id : Ids, name : {Missing},
          email : {NoEmail}, host : {GoodHost}]
    \cup [op : {"get_users"}, id : {0}, name : {Missing},
          email : {NoEmail}, host : {GoodHost, BadHost}]

NoRequest == [op |-> "none", id |-> 0, name |-> Missing, email |-> NoEmail,
              host |-> GoodHost]

NoUser == [id |-> 0, name |-> Missing, email |-> NoEmail]

NoBody == [kind |-> "none"]

----------------------------------------------------------------------------
\* pydantic: UserCreate(name: str, email: EmailStr)

AtPositions(e) == {i \in 1..Len(e) : e[i] = "@"}

DotPositions(e) == {i \in 1..Len(e) : e[i] = "."}

\* Mutation: the email field typed as a plain non-empty str.
ValidEmailAnyStr(e) == Len(e) > 0

\* EmailStr accepts local@domain with a dotted domain.
ValidEmail(e) ==
    /\ Cardinality(AtPositions(e)) = 1
    /\ LET at == CHOOSE i \in AtPositions(e) : TRUE
       IN  /\ at > 1
           /\ at + 1 < Len(e)
           /\ e[at + 1] # "."
           /\ e[Len(e)] # "."
           /\ \E d \in DotPositions(e) : d > at

Lower(c) == IF c = "X" THEN "x" ELSE c

\* EmailStr yields the normalized address: the domain is lower-cased.
NormalizeEmail(e) ==
    LET at == CHOOSE i \in AtPositions(e) : TRUE
    IN  [i \in 1..Len(e) |-> IF i > at THEN Lower(e[i]) ELSE e[i]]

ValidName(n) == n # Missing

\* The fields RequestValidationError.errors() reports for a body.
ValidationErrors(rq) ==
    (IF ValidName(rq.name) THEN {} ELSE {"name"})
    \cup (IF ValidEmail(rq.email) THEN {} ELSE {"email"})

HasBody(op) == op \in {"create_user", "update_user"}

----------------------------------------------------------------------------
\* Middleware

AllowedHosts == {"127.0.0.1", "localhost"}

TrustedHost(host) == host \in AllowedHosts

Method(op) ==
    CASE op = "create_user" -> "POST"
      [] op = "update_user" -> "PUT"
      [] op = "delete_user" -> "DELETE"
      [] OTHER -> "GET"

\* LoggingMiddleware.dispatch, before call_next
LogRequest(rq) == <<"Request", Method(rq.op), rq.id>>

\* LoggingMiddleware.dispatch, after call_next: an exception that no handler
\* turned into a response is raised out of call_next and skips the log call.
LogResponse(lg, st, unhandled) ==
    IF unhandled THEN lg ELSE Append(lg, <<"Response status", st>>)

----------------------------------------------------------------------------
\* Storage: table users(id PK, name NOT NULL, email UNIQUE NOT NULL)

Emails(tbl) == {u.email : u \in tbl}

UserIds(tbl) == {u.id : u \in tbl}

RowsWithId(tbl, id) == {u \in tbl : u.id = id}

\* id = Column(Integer, primary_key=True)
PrimaryKeyViolation(tbl, id) == id \in UserIds(tbl)

\* Mutation: the email column declared without unique=True.
UniqueEmailNotDeclared(tbl, email) == FALSE

\* email = Column(String, unique=True, nullable=False)
UniqueEmailViolation(tbl, email) == email \in Emails(tbl)

\* Mutation: an INSERT checked against the primary key alone.
IntegrityErrorPrimaryKeyOnly(tbl, row) == PrimaryKeyViolation(tbl, row.id)

\* The INSERT of a flush raises IntegrityError.
IntegrityError(tbl, row) ==
    \/ PrimaryKeyViolation(tbl, row.id)
    \/ UniqueEmailViolation(tbl, row.email)

\* session.execute(statement): a plain str is refused with ArgumentError
\* before anything is sent; only text(...) constructs are executable.
ExecuteRaises(stmt) == stmt # "text"

\* The statement objects the handlers pass to session.execute.
GetUsersStatement == "text"
GetUserStatement == "str"
UpdateUserStatement == "str"
DeleteUserStatement == "text"

----------------------------------------------------------------------------
\* The end of a request: the response (or the exception) travels back
\* through LoggingMiddleware, and get_session leaves its "async with",
\* which closes the session.

Finish(r, st, bd, exc, unhandled, tr) ==
    /\ status' = [status EXCEPT ![r] = st]
    /\ body' = [body EXCEPT ![r] = bd]
    /\ raised' = [raised EXCEPT ![r] = exc]
    /\ trace' = [trace EXCEPT ![r] = Append(tr, "close")]
    /\ newUser' = [newUser EXCEPT ![r] = NoUser]
    /\ log' = [log EXCEPT ![r] = LogResponse(log[r], st, unhandled)]
    /\ pc' = [pc EXCEPT ![r] = "done"]

\* HTTPException(status_code, detail), turned into a response by FastAPI.
HttpError(r, st, detail, tr) ==
    Finish(r, st, [kind |-> "detail", detail |-> detail], "HTTPException", FALSE, tr)

\* Any other exception: no handler is registered, the server answers 500.
Unhandled(r, exc, tr) ==
    Finish(r, 500, [kind |-> "server_error"], exc, TRUE, tr)

UserBody(u) == [kind |-> "user", user |-> u]

----------------------------------------------------------------------------
Init ==
    /\ users = {}
    /\ seq = 1
    /\ pc = [r \in Slots |-> "idle"]
    /\ req = [r \in Slots |-> NoRequest]
    /\ newUser = [r \in Slots |-> NoUser]
    /\ status = [r \in Slots |-> 0]
    /\ body = [r \in Slots |-> NoBody]
    /\ raised = [r \in Slots |-> "none"]
    /\ trace = [r \in Slots |-> <<>>]
    /\ log = [r \in Slots |-> <<>>]

\* A request arrives: TrustedHostMiddleware, then LoggingMiddleware, then
\* the route's body validation (validation_exception_handler on failure).
Receive(r, rq) ==
    /\ pc[r] \in {"idle", "done"}
    /\ req' = [req EXCEPT ![r] = rq]
    /\ newUser' = [newUser EXCEPT ![r] = NoUser]
    /\ UNCHANGED <<users, seq>>
    /\ IF ~TrustedHost(rq.host)
       THEN /\ status' = [status EXCEPT ![r] = 400]
            /\ body' = [body EXCEPT ![r] = [kind |-> "invalid_host"]]
            /\ raised' = [raised EXCEPT ![r] = "none"]
            /\ trace' = [trace EXCEPT ![r] = <<>>]
            /\ log' = [log EXCEPT ![r] = <<>>]
            /\ pc' = [pc EXCEPT ![r] = "done"]
       ELSE IF HasBody(rq.op) /\ ValidationErrors(rq) # {}
       THEN /\ status' = [status EXCEPT ![r] = 400]
            /\ body' = [body EXCEPT ![r] =
                           [kind |-> "validation", fields |-> ValidationErrors(rq)]]
            /\ raised' = [raised EXCEPT ![r] = "RequestValidationError"]
            /\ trace' = [trace EXCEPT ![r] = <<"close">>]
            /\ log' = [log EXCEPT ![r] =
                          LogResponse(<<LogRequest(rq)>>, 400, FALSE)]
            /\ pc' = [pc EXCEPT ![r] = "done"]
       ELSE /\ status' = [status EXCEPT ![r] = 0]
            /\ body' = [body EXCEPT ![r] = NoBody]
            /\ raised' = [raised EXCEPT ![r] = "none"]
            /\ trace' = [trace EXCEPT ![r] = <<>>]
            /\ log' = [log EXCEPT ![r] = <<LogRequest(rq)>>]
            /\ pc' = [pc EXCEPT ![r] = "handler"]

\* create_user, lines 74-77 and 80-82: add, commit (flush INSERT + COMMIT).
CreateUserCommit(r) ==
    /\ pc[r] = "handler"
    /\ req[r].op = "create_user"
    /\ seq <= MaxId
    /\ LET row == [id |-> seq, name |-> req[r].name,
                   email |-> NormalizeEmail(req[r].email)]
       IN  /\ seq' = seq + 1
           /\ UNCHANGED req
           /\ IF IntegrityError(users, row)
              THEN /\ UNCHANGED users
                   /\ HttpError(r, 400, "Error creating user",
                                <<"add", "commit", "rollback">>)
              ELSE /\ users' = users \cup {row}
                   /\ newUser' = [newUser EXCEPT ![r] = row]
                   /\ trace' = [trace EXCEPT ![r] = <<"add", "commit">>]
                   /\ pc' = [pc EXCEPT ![r] = "refresh"]
                   /\ UNCHANGED <<status, body, raised, log>>

\* create_user, lines 78-82: refresh re-reads the row by primary key and
\* raises InvalidRequestError when it is gone.
CreateUserRefresh(r) ==
    /\ pc[r] = "refresh"
    /\ UNCHANGED <<users, seq, req>>
    /\ LET found == RowsWithId(users, newUser[r].id)
       IN  IF found = {}
           THEN HttpError(r, 400, "Error creating user",
                          trace[r] \o <<"refresh", "rollback">>)
           ELSE LET row == CHOOSE u \in found : TRUE
                IN  Finish(r, 200, UserBody(row), "none", FALSE,
                              Append(trace[r], "refresh"))

\* get_users, lines 84-88
GetUsers(r) ==
    /\ pc[r] = "handler"
    /\ req[r].op = "get_users"
    /\ UNCHANGED <<users, seq, req>>
    /\ IF ExecuteRaises(GetUsersStatement)
       THEN Unhandled(r, "ArgumentError", <<"execute">>)
       ELSE Finish(r, 200, [kind |-> "users", users |-> users], "none", FALSE,
                   <<"execute">>)

\* get_user, lines 90-96
GetUser(r) ==
    /\ pc[r] = "handler"
    /\ req[r].op = "get_user"
    /\ UNCHANGED <<users, seq, req>>
    /\ IF ExecuteRaises(GetUserStatement)
       THEN Unhandled(r, "ArgumentError", <<"execute">>)
       ELSE LET found == RowsWithId(users, req[r].id)
            IN  IF found = {}
                THEN HttpError(r, 404, "User not found", <<"execute">>)
                ELSE Finish(r, 200, UserBody(CHOOSE u \in found : TRUE),
                            "none", FALSE, <<"execute">>)

\* update_user, lines 98-114.  fetchone() yields a Row, a read-only tuple:
\* assigning its attribute raises AttributeError outside the try block.
UpdateUser(r) ==
    /\ pc[r] = "handler"
    /\ req[r].op = "update_user"
    /\ UNCHANGED <<users, seq, req>>
    /\ IF ExecuteRaises(UpdateUserStatement)
       THEN Unhandled(r, "ArgumentError", <<"execute">>)
       ELSE IF RowsWithId(users, req[r].id) = {}
       THEN HttpError(r, 404, "User not found", <<"execute">>)
       ELSE Unhandled(r, "AttributeError", <<"execute">>)

\* delete_user, lines 118-121: the SELECT
DeleteUserSelect(r) ==
    /\ pc[r] = "handler"
    /\ req[r].op = "delete_user"
    /\ UNCHANGED <<users, seq, req>>
    /\ IF ExecuteRaises(DeleteUserStatement)
       THEN Unhandled(r, "ArgumentError", <<"execute">>)
       ELSE IF RowsWithId(users, req[r].id) = {}
       THEN HttpError(r, 404, "User not found", <<"execute">>)
       ELSE /\ trace' = [trace EXCEPT ![r] = <<"execute">>]
            /\ pc' = [pc EXCEPT ![r] = "delete"]
            /\ UNCHANGED <<status, body, raised, log, newUser>>

\* delete_user, lines 123-126: the DELETE and its COMMIT
DeleteUserCommit(r) ==
    /\ pc[r] = "delete"
    /\ users' = users \ RowsWithId(users, req[r].id)
    /\ UNCHANGED <<seq, req>>
    /\ Finish(r, 200, [kind |-> "message", message |-> "User deleted successfully"],
              "none", FALSE, trace[r] \o <<"execute", "commit">>)

Next ==
    \/ \E r \in Slots, rq \in Requests : Receive(r, rq)
    \/ \E r \in Slots : CreateUserCommit(r)
    \/ \E r \in Slots : CreateUserRefresh(r)
    \/ \E r \in Slots : GetUsers(r)
    \/ \E r \in Slots : GetUser(r)
    \/ \E r \in Slots : UpdateUser(r)
    \/ \E r \in Slots : DeleteUserSelect(r)
    \/ \E r \in Slots : DeleteUserCommit(r)

Spec == Init /\ [][Next]_vars

----------------------------------------------------------------------------
\* Vocabulary of the properties

\* The step taken is the handler step of slot r that talks to storage first.
HandlerStep(r, op) ==
    /\ pc[r] = "handler"
    /\ req[r].op = op
    /\ pc'[r] # "handler"

\* The step taken is the reception of a request by slot r.
ReceiveStep(r) ==
    /\ pc[r] \in {"idle", "done"}
    /\ <<pc[r], req[r], status[r], body[r], trace[r], log[r]>>'
          # <<pc[r], req[r], status[r], body[r], trace[r], log[r]>>

RowsWithEmail(tbl, email) == {u \in tbl : u.email = email}

\* The address a body's email field is stored as.
StoredForm(email) ==
    IF email = EmailUpper THEN <<"a", "@", "x", ".", "c">> ELSE email

Occurrences(tr, what) == Cardinality({i \in 1..Len(tr) : tr[i] = what})

SessionOps(tr) == {tr[i] : i \in 1..Len(tr)} \ {"close"}

ErrorBody(detail) == [kind |-> "detail", detail |-> detail]

----------------------------------------------------------------------------
\* C1: when a user with email E is stored, a further create with email E
\* fails with the persistence error reported as HTTP 400, leaves the stored
\* rows as they were, and exactly one stored row has email E afterwards.
C1_DuplicateCreateFails ==
    [][\A r \in Slots :
          (/\ HandlerStep(r, "create_user")
           /\ RowsWithEmail(users, StoredForm(req[r].email)) # {})
          => /\ status'[r] = 400
             /\ body'[r] = ErrorBody("Error creating user")
             /\ pc'[r] = "done"
             /\ users' = users
             /\ Cardinality(RowsWithEmail(users', StoredForm(req[r].email))) = 1
      ]_vars

C1_Witness ==
    \E r \in Slots :
        /\ pc[r] = "done"
        /\ req[r].op = "create_user"
        /\ status[r] = 400
        /\ trace[r] = <<"add", "commit", "rollback", "close">>
        /\ Cardinality(RowsWithEmail(users, StoredForm(req[r].email))) = 1

\* C2: in every reachable state no two stored users share an id and no two
\* share an email, and an update whose new email is the email of a different
\* stored user commits nothing.
UniqueRows ==
    \A u, v \in users : (u.id = v.id \/ u.email = v.email) => u = v

UpdateCollides(r) ==
    \E v \in users : v.id # req[r].id /\ v.email = StoredForm(req[r].email)

C2_UniqueIdAndEmail ==
    /\ []UniqueRows
    /\ [][\A r \in Slots :
             (HandlerStep(r, "update_user") /\ UpdateCollides(r))
             => /\ users' = users
                /\ "commit" \notin SessionOps(trace'[r])
         ]_vars

C2_Witness ==
    /\ Cardinality(users) = 2
    /\ \E r \in Slots :
          /\ pc[r] = "done"
          /\ req[r].op = "update_user"
          /\ trace[r] # <<"close">>
          /\ RowsWithId(users, req[r].id) # {}
          /\ UpdateCollides(r)

\* C3: a create with a valid payload whose email is not stored succeeds and
\* returns the new row with its storage-assigned id, and a get-by-id on the
\* id of a stored row whose create has returned answers 200 with that row's
\* id, name and email.
C3_RoundTrip ==
    [][\A r \in Slots :
          /\ (/\ HandlerStep(r, "create_user")
              /\ RowsWithEmail(users, StoredForm(req[r].email)) = {})
             => /\ pc'[r] = "refresh"
                /\ newUser'[r] = [id |-> seq, name |-> req[r].name,
                                  email |-> StoredForm(req[r].email)]
                /\ users' = users \cup {newUser'[r]}
          /\ (pc[r] = "refresh" /\ pc'[r] = "done" /\ newUser[r] \in users)
             => /\ status'[r] = 200
                /\ body'[r] = UserBody(newUser[r])
          /\ (/\ HandlerStep(r, "get_user")
              /\ RowsWithId(users, req[r].id) # {}
              /\ \A q \in Slots : newUser[q].id # req[r].id)
             => /\ status'[r] = 200
                /\ body'[r].kind = "user"
                /\ body'[r].user \in RowsWithId(users, req[r].id)
      ]_vars

\* C4: an update with a valid payload on a stored id, whose new email is not
\* the email of another user, overwrites that row's name and email, leaves
\* its id and the other rows alone, and answers 200 with the updated row.
C4_UpdateOverwrites ==
    [][\A r \in Slots :
          (/\ HandlerStep(r, "update_user")
           /\ RowsWithId(users, req[r].id) # {}
           /\ ~UpdateCollides(r))
          => LET updated == [id |-> req[r].id, name |-> req[r].name,
                             email |-> StoredForm(req[r].email)]
             IN  /\ users' = (users \ RowsWithId(users, req[r].id)) \cup {updated}
                 /\ status'[r] = 200
                 /\ body'[r] = UserBody(updated)
      ]_vars

\* C5: an update on an id that is not stored answers 404 and writes nothing.
C5_UpdateMissingIs404 ==
    [][\A r \in Slots :
          (HandlerStep(r, "update_user") /\ RowsWithId(users, req[r].id) = {})
          => /\ status'[r] = 404
             /\ users' = users
      ]_vars

\* C6: a get-by-id on an id that is not stored (never created, or deleted)
\* answers 404, and a delete answering 200 removes exactly the row with
\* that id.
C6_GetMissingIs404 ==
    [][\A r \in Slots :
          /\ (HandlerStep(r, "get_user") /\ RowsWithId(users, req[r].id) = {})
             => status'[r] = 404
          /\ (pc[r] = "delete" /\ pc'[r] = "done")
             => /\ status'[r] = 200
                /\ users' = users \ RowsWithId(users, req[r].id)
      ]_vars

\* C7: a create whose email is not a valid address is answered 400 with the
\* email field named in the detail, performs no session operation, and
\* leaves the stored rows unchanged.
InvalidEmailCreate(rq) ==
    /\ rq.op = "create_user"
    /\ rq.host = GoodHost
    /\ rq.email = EmailBad

InvalidEmailRejected ==
    \A r \in Slots :
        InvalidEmailCreate(req[r])
        => /\ pc[r] = "done"
           /\ status[r] = 400
           /\ body[r].kind = "validation"
           /\ "email" \in body[r].fields
           /\ SessionOps(trace[r]) = {}

C7_InvalidEmailNeverStored ==
    /\ []InvalidEmailRejected
    /\ [][\A r \in Slots :
             (ReceiveStep(r) /\ InvalidEmailCreate(req'[r])) => users' = users
         ]_vars

C7_Witness ==
    /\ users # {}
    /\ \E r \in Slots :
          /\ InvalidEmailCreate(req[r])
          /\ status[r] = 400
          /\ log[r] = <<LogRequest(req[r]), <<"Response status", 400>>>>

\* C8: every stored user has a non-empty name.
C8_StoredNamesNonEmpty ==
    \A u \in users : u.name # "" /\ u.name # Missing

\* C9: a request whose handler ran and answered 200 committed exactly once
\* and never rolled back; one whose handler raised rolled back exactly once
\* before the error reached the caller.
HandlerRan(r) == pc[r] = "done" /\ SessionOps(trace[r]) # {}

C9_OneTransactionPerRequest ==
    \A r \in Slots :
        HandlerRan(r)
        => IF raised[r] = "none"
           THEN /\ Occurrences(trace[r], "commit") = 1
                /\ Occurrences(trace[r], "rollback") = 0
           ELSE Occurrences(trace[r], "rollback") = 1

\* C10: every request that reaches the logging middleware has its method
\* and path logged before dispatch and its status code logged after it,
\* whatever the outcome.
C10_StatusAlwaysLogged ==
    \A r \in Slots :
        /\ (pc[r] # "idle" /\ TrustedHost(req[r].host))
           => (Len(log[r]) >= 1 /\ log[r][1] = LogRequest(req[r]))
        /\ (pc[r] = "done" /\ TrustedHost(req[r].host))
           => log[r] = <<LogRequest(req[r]), <<"Response status", status[r]>>>>

====
